---- MODULE Spec2Model ----
(***************************************************************************)
(* Model of mailing_lists.go: the mailing-list and subscriber operations   *)
(* of the mailgun client.  Every operation builds one request (URL, basic  *)
(* auth, payload), hands it to the HTTP collaborator, and decodes the      *)
(* reply.  The HTTP collaborator and the JSON decoder are external: their  *)
(* outcomes are drawn nondeterministically.                                *)
(***************************************************************************)
EXTENDS Integers, Sequences, FiniteSets, TLC

(* ------------------------------ bounds -------------------------------- *)

\* limit and skip range over -MaxInt..MaxInt, the two defaults and two
\* values of more digits
MaxInt == 3
\* number of callers that may run an operation at the same time
NumCallers == 2

Callers == 1..NumCallers

(* --------------------- constants of the package ----------------------- *)

ReadOnly == "readonly"
Members == "members"
Everyone == "everyone"

\* declared elsewhere in the package: the values that mean "parameter not
\* given" (limit 25 and skip 0 in the documented scenario), the basic-auth
\* user and the endpoint name
DefaultLimit == 25
DefaultSkip == 0
basicAuthUser == "api"
listsEndpoint == "lists"

Nil == "nil"

(* ------------------------- *bool as a tri-state ----------------------- *)

\* All, Subscribed and Unsubscribed are package-level pointers; Subscribed
\* and Unsubscribed point at the package-level variables yes and no.
All == Nil
Subscribed == "&yes"
Unsubscribed == "&no"
\* pointers to booleans owned by the caller or allocated by the decoder
PtrTrue == "&true"
PtrFalse == "&false"
BoolPtrs == {All, Subscribed, Unsubscribed, PtrTrue, PtrFalse}

VARIABLES
    yes, no,      \* the package-level booleans behind Subscribed/Unsubscribed
    apiKey,       \* the credential held by the client (mg.ApiKey())
    pc,           \* per caller: "idle", "request", "done", "panic"
    op,           \* per caller: the operation in progress
    args,         \* per caller: the arguments it was called with
    req,          \* per caller: the request built so far (r and p)
    sent,         \* per caller: the requests put on the wire by this call
    reply,        \* per caller: what the HTTP collaborator returned
    ret           \* per caller: the values returned to the caller

vars == <<yes, no, apiKey, pc, op, args, req, sent, reply, ret>>

\* *p for a non-nil pointer p, read at the moment of the call
Deref(p) ==
    CASE p = Subscribed -> yes
      [] p = Unsubscribed -> no
      [] p = PtrTrue -> TRUE
      [] OTHER -> FALSE

\* yesNo (declared elsewhere in the package): the wire text of a boolean
yesNo(b) == IF b THEN "yes" ELSE "no"

(* ------------------------------ strconv ------------------------------- *)

Digit == <<"0", "1", "2", "3", "4", "5", "6", "7", "8", "9">>

RECURSIVE ItoaNat(_)
ItoaNat(n) == IF n < 10 THEN Digit[n + 1]
              ELSE ItoaNat(n \div 10) \o Digit[(n % 10) + 1]

\* strconv.Itoa: the decimal text of an int
Itoa(n) == IF n < 0 THEN "-" \o ItoaNat(0 - n) ELSE ItoaNat(n)

(* ---------------------------- the records ----------------------------- *)

ZeroList == [Address |-> "", Name |-> "", Description |-> "",
             AccessLevel |-> "", CreatedAt |-> "", MembersCount |-> 0]

\* Vars is a Go map: nil, or a finite map from keys to values.  A value is
\* a string, or something encoding/json cannot encode (a channel).
VarKeys == <<"k", "m">>
Chan == "<chan>"
NilVars == [isNil |-> TRUE, keys |-> {}, at |-> [x \in {} |-> ""]]
MakeVars(f) == [isNil |-> FALSE, keys |-> DOMAIN f, at |-> f]

ZeroSubscriber == [Address |-> "", Name |-> "", Subscribed |-> Nil,
                   Vars |-> NilVars]

(* --------------------------- encoding/json ---------------------------- *)

Quote(s) == "\"" \o s \o "\""

RECURSIVE MarshalEntries(_, _, _)
MarshalEntries(v, i, first) ==
    IF i > Len(VarKeys) THEN ""
    ELSE IF VarKeys[i] \in v.keys
         THEN (IF first THEN "" ELSE ",")
              \o Quote(VarKeys[i]) \o ":" \o Quote(v.at[VarKeys[i]])
              \o MarshalEntries(v, i + 1, FALSE)
         ELSE MarshalEntries(v, i + 1, first)

\* json.Marshal of a map[string]interface{}: a nil map is "null", keys are
\* written in sorted order, an unsupported value is an error
Marshal(v) ==
    IF v.isNil THEN [text |-> "null", err |-> Nil]
    ELSE IF \E k \in v.keys : v.at[k] = Chan
         THEN [text |-> "", err |-> "json: unsupported type"]
         ELSE [text |-> "{" \o MarshalEntries(v, 1, TRUE) \o "}", err |-> Nil]

(* --------------------------- request building ------------------------- *)

\* p.AddValue(k, v): one more field at the end of the payload
AddValue(p, k, v) == Append(p, <<k, v>>)

\* generatePublicApiUrl (declared elsewhere in the package): the path under
\* the API base
generatePublicApiUrl(endpoint) == "/" \o endpoint

\* generateSubscriberApiUrl (declared elsewhere in the package): the
\* members of one list
generateSubscriberApiUrl(endpoint, addr) ==
    "/" \o endpoint \o "/" \o addr \o "/members"

\* simplehttp.NewHTTPRequest(url) followed by r.SetBasicAuth(user, key),
\* with the payload and the method the operation later sends it with
NewHTTPRequest(method, url, key, enc, p) ==
    [method |-> method, url |-> url, user |-> basicAuthUser, pass |-> key,
     enc |-> enc, payload |-> p]

NoRequest == NewHTTPRequest("", "", "", "none", <<>>)

\* GetLists sending the limit under the name skip
GetListsPayloadSkipFromLimit(limit, skip, filter) ==
    LET p1 == IF limit # DefaultLimit
              THEN AddValue(<<>>, "limit", Itoa(limit)) ELSE <<>>
        p2 == IF skip # DefaultSkip
              THEN AddValue(p1, "skip", Itoa(limit)) ELSE p1
    IN  IF filter # "" THEN AddValue(p2, "address", filter) ELSE p2

GetListsPayload(limit, skip, filter) ==
    LET p1 == IF limit # DefaultLimit
              THEN AddValue(<<>>, "limit", Itoa(limit)) ELSE <<>>
        p2 == IF skip # DefaultSkip
              THEN AddValue(p1, "skip", Itoa(skip)) ELSE p1
    IN  IF filter # "" THEN AddValue(p2, "address", filter) ELSE p2

GetListsRequest(key, limit, skip, filter) ==
    NewHTTPRequest("GET", generatePublicApiUrl(listsEndpoint), key,
                   "urlencoded", GetListsPayload(limit, skip, filter))

CreateListPayload(prototype) ==
    LET p1 == IF prototype.Address # ""
              THEN AddValue(<<>>, "address", prototype.Address) ELSE <<>>
        p2 == IF prototype.Name # ""
              THEN AddValue(p1, "name", prototype.Name) ELSE p1
        p3 == IF prototype.Description # ""
              THEN AddValue(p2, "description", prototype.Description) ELSE p2
    IN  IF prototype.AccessLevel # ""
        THEN AddValue(p3, "access_level", prototype.AccessLevel) ELSE p3

CreateListRequest(key, prototype) ==
    NewHTTPRequest("POST", generatePublicApiUrl(listsEndpoint), key,
                   "urlencoded", CreateListPayload(prototype))

DeleteListRequest(key, addr) ==
    NewHTTPRequest("DELETE", generatePublicApiUrl(listsEndpoint) \o "/" \o addr,
                   key, "none", <<>>)

GetListByAddressRequest(key, addr) ==
    NewHTTPRequest("GET", generatePublicApiUrl(listsEndpoint) \o "/" \o addr,
                   key, "none", <<>>)

\* UpdateList without the test on Description
UpdateListPayloadAlwaysDescription(prototype) ==
    LET p1 == IF prototype.Address # ""
              THEN AddValue(<<>>, "address", prototype.Address) ELSE <<>>
        p2 == IF prototype.Name # ""
              THEN AddValue(p1, "name", prototype.Name) ELSE p1
        p3 == AddValue(p2, "description", prototype.Description)
    IN  IF prototype.AccessLevel # ""
        THEN AddValue(p3, "access_level", prototype.AccessLevel) ELSE p3

UpdateListPayload(prototype) ==
    LET p1 == IF prototype.Address # ""
              THEN AddValue(<<>>, "address", prototype.Address) ELSE <<>>
        p2 == IF prototype.Name # ""
              THEN AddValue(p1, "name", prototype.Name) ELSE p1
        p3 == IF prototype.Description # ""
              THEN AddValue(p2, "description", prototype.Description) ELSE p2
    IN  IF prototype.AccessLevel # ""
        THEN AddValue(p3, "access_level", prototype.AccessLevel) ELSE p3

UpdateListRequest(key, addr, prototype) ==
    NewHTTPRequest("PUT", generatePublicApiUrl(listsEndpoint) \o "/" \o addr,
                   key, "urlencoded", UpdateListPayload(prototype))

\* GetSubscribers treating a nil filter as false
GetSubscribersPayloadNilAsNo(limit, skip, s) ==
    LET p1 == IF limit # DefaultLimit
              THEN AddValue(<<>>, "limit", Itoa(limit)) ELSE <<>>
        p2 == IF skip # DefaultSkip
              THEN AddValue(p1, "skip", Itoa(skip)) ELSE p1
    IN  AddValue(p2, "subscribed", yesNo(s # Nil /\ Deref(s)))

GetSubscribersPayload(limit, skip, s) ==
    LET p1 == IF limit # DefaultLimit
              THEN AddValue(<<>>, "limit", Itoa(limit)) ELSE <<>>
        p2 == IF skip # DefaultSkip
              THEN AddValue(p1, "skip", Itoa(skip)) ELSE p1
    IN  IF s # Nil THEN AddValue(p2, "subscribed", yesNo(Deref(s))) ELSE p2

GetSubscribersRequest(key, limit, skip, s, addr) ==
    NewHTTPRequest("GET", generateSubscriberApiUrl(listsEndpoint, addr), key,
                   "urlencoded", GetSubscribersPayload(limit, skip, s))

\* GetSubscriberByAddress with its two addresses exchanged
GetSubscriberByAddressRequestSwapped(key, s, l) ==
    NewHTTPRequest("GET",
                   generateSubscriberApiUrl(listsEndpoint, s) \o "/" \o l,
                   key, "none", <<>>)

GetSubscriberByAddressRequest(key, s, l) ==
    NewHTTPRequest("GET",
                   generateSubscriberApiUrl(listsEndpoint, l) \o "/" \o s,
                   key, "none", <<>>)

\* CreateSubscriber always asking for an upsert
CreateSubscriberPayloadUpsertYes(merge, prototype, vs) ==
    LET p1 == AddValue(<<>>, "upsert", yesNo(TRUE))
        p2 == AddValue(p1, "address", prototype.Address)
        p3 == AddValue(p2, "name", prototype.Name)
        p4 == AddValue(p3, "vars", vs)
    IN  IF prototype.Subscribed # Nil
        THEN AddValue(p4, "subscribed", yesNo(Deref(prototype.Subscribed)))
        ELSE p4

\* vs is the text json.Marshal produced for prototype.Vars
CreateSubscriberPayload(merge, prototype, vs) ==
    LET p1 == AddValue(<<>>, "upsert", yesNo(merge))
        p2 == AddValue(p1, "address", prototype.Address)
        p3 == AddValue(p2, "name", prototype.Name)
        p4 == AddValue(p3, "vars", vs)
    IN  IF prototype.Subscribed # Nil
        THEN AddValue(p4, "subscribed", yesNo(Deref(prototype.Subscribed)))
        ELSE p4

CreateSubscriberRequest(key, merge, addr, prototype, vs) ==
    NewHTTPRequest("POST", generateSubscriberApiUrl(listsEndpoint, addr), key,
                   "formdata", CreateSubscriberPayload(merge, prototype, vs))

\* vs is the text json.Marshal produced for prototype.Vars when it is not nil
UpdateSubscriberPayload(prototype, vs) ==
    LET p1 == IF prototype.Address # ""
              THEN AddValue(<<>>, "address", prototype.Address) ELSE <<>>
        p2 == IF prototype.Name # ""
              THEN AddValue(p1, "name", prototype.Name) ELSE p1
        p3 == IF ~prototype.Vars.isNil THEN AddValue(p2, "vars", vs) ELSE p2
    IN  IF prototype.Subscribed # Nil
        THEN AddValue(p3, "subscribed", yesNo(Deref(prototype.Subscribed)))
        ELSE p3

UpdateSubscriberRequest(key, s, l, prototype, vs) ==
    NewHTTPRequest("PUT",
                   generateSubscriberApiUrl(listsEndpoint, l) \o "/" \o s,
                   key, "formdata", UpdateSubscriberPayload(prototype, vs))

(* ------------------- the reply and its decoding ----------------------- *)

\* A response body, as far as the decoder can tell bodies apart: not JSON at
\* all ("syntax"), or a JSON document with an address (or none) and one
\* further field (total_count, members_count or subscribed) that is absent,
\* well-typed ("good") or of the wrong JSON type ("bad").
SyntaxBody == [shape |-> "syntax", address |-> "", extra |-> "absent"]
Bodies == {SyntaxBody}
          \cup [shape : {"json"}, address : {"", "s@x"},
                extra : {"absent", "good", "bad"}]

NilResponse == [isNil |-> TRUE, code |-> 0, body |-> SyntaxBody]
Responses == [isNil : {FALSE}, code : {200, 404}, body : Bodies]

DecodeErr == "json: cannot unmarshal"

\* what the HTTP collaborator can hand back: a response and no error; a
\* transport failure and no response; a failure reported for a non-2xx
\* status, with or without the response
Outcomes ==
    [err : {Nil}, resp : Responses]
    \cup [err : {"transport"}, resp : {NilResponse}]
    \cup [err : {"status"},
          resp : {NilResponse} \cup {r \in Responses : r.code = 404}]

\* json.Unmarshal into a List: a syntax error leaves the target untouched; a
\* field of the wrong type is skipped and reported after the others are set
ParseList(b) ==
    IF b.shape = "syntax" THEN [v |-> ZeroList, err |-> DecodeErr]
    ELSE [v |-> [ZeroList EXCEPT !.Address = b.address,
                                 !.MembersCount = IF b.extra = "good" THEN 2 ELSE 0],
          err |-> IF b.extra = "bad" THEN DecodeErr ELSE Nil]

\* json.Unmarshal into a Subscriber
ParseSubscriber(b) ==
    IF b.shape = "syntax" THEN [v |-> ZeroSubscriber, err |-> DecodeErr]
    ELSE [v |-> [ZeroSubscriber EXCEPT !.Address = b.address,
                                       !.Subscribed = IF b.extra = "good"
                                                      THEN PtrTrue ELSE Nil],
          err |-> IF b.extra = "bad" THEN DecodeErr ELSE Nil]

\* json.Unmarshal into the {items, total_count} envelope
ParseItems(b, zero) ==
    IF b.shape = "syntax" THEN [count |-> 0, items |-> <<>>, err |-> DecodeErr]
    ELSE [count |-> IF b.extra = "good" THEN 2 ELSE 0,
          items |-> IF b.address = "" THEN <<>>
                    ELSE <<[zero EXCEPT !.Address = b.address]>>,
          err |-> IF b.extra = "bad" THEN DecodeErr ELSE Nil]

(* --------------------- what an operation returns ---------------------- *)

\* the returned values of all operations in one shape: the count and the
\* items of the two listing operations, the List, the Subscriber
ZeroVal == [count |-> 0, items |-> <<>>, list |-> ZeroList,
            member |-> ZeroSubscriber]

NoReturn == [val |-> ZeroVal, err |-> Nil, decoded |-> FALSE]

\* the operation returns val and err; decoded tells whether it parsed a body
Returned(val, err, decoded) ==
    [pc |-> "done", val |-> val, err |-> err, decoded |-> decoded]

\* response.ParseFromJSON on a nil *HTTPResponse: a nil dereference
Panicked == [pc |-> "panic", val |-> ZeroVal, err |-> Nil, decoded |-> FALSE]

\* GetLists with a failure count of 0 in place of -1
GetListsFinishZeroCount(o) ==
    IF o.err # Nil THEN Returned(ZeroVal, o.err, FALSE)
    ELSE IF o.resp.isNil THEN Panicked
    ELSE LET d == ParseItems(o.resp.body, ZeroList)
         IN  Returned([ZeroVal EXCEPT !.count = d.count, !.items = d.items],
                      d.err, TRUE)

GetListsFinish(o) ==
    IF o.err # Nil THEN Returned([ZeroVal EXCEPT !.count = -1], o.err, FALSE)
    ELSE IF o.resp.isNil THEN Panicked
    ELSE LET d == ParseItems(o.resp.body, ZeroList)
         IN  Returned([ZeroVal EXCEPT !.count = d.count, !.items = d.items],
                      d.err, TRUE)

CreateListFinish(o) ==
    IF o.err # Nil THEN Returned(ZeroVal, o.err, FALSE)
    ELSE IF o.resp.isNil THEN Panicked
    ELSE LET d == ParseList(o.resp.body)
         IN  Returned([ZeroVal EXCEPT !.list = d.v], d.err, TRUE)

DeleteListFinish(o) == Returned(ZeroVal, o.err, FALSE)

\* the error of MakeGetRequest is overwritten without being looked at
GetListByAddressFinish(o) ==
    IF o.resp.isNil THEN Panicked
    ELSE LET d == ParseList(o.resp.body)
         IN  Returned([ZeroVal EXCEPT !.list = d.v], d.err, TRUE)

UpdateListFinish(o) ==
    IF o.err # Nil THEN Returned(ZeroVal, o.err, FALSE)
    ELSE IF o.resp.isNil THEN Panicked
    ELSE LET d == ParseList(o.resp.body)
         IN  Returned([ZeroVal EXCEPT !.list = d.v], d.err, TRUE)

GetSubscribersFinish(o) ==
    IF o.err # Nil THEN Returned([ZeroVal EXCEPT !.count = -1], o.err, FALSE)
    ELSE IF o.resp.isNil THEN Panicked
    ELSE LET d == ParseItems(o.resp.body, ZeroSubscriber)
         IN  Returned([ZeroVal EXCEPT !.count = d.count, !.items = d.items],
                      d.err, TRUE)

GetSubscriberByAddressFinish(o) ==
    IF o.err # Nil THEN Returned(ZeroVal, o.err, FALSE)
    ELSE IF o.resp.isNil THEN Panicked
    ELSE LET d == ParseSubscriber(o.resp.body)
         IN  Returned([ZeroVal EXCEPT !.member = d.v], d.err, TRUE)

CreateSubscriberFinish(o) == Returned(ZeroVal, o.err, FALSE)

UpdateSubscriberFinish(o) ==
    IF o.err # Nil THEN Returned(ZeroVal, o.err, FALSE)
    ELSE IF o.resp.isNil THEN Panicked
    ELSE LET d == ParseSubscriber(o.resp.body)
         IN  Returned([ZeroVal EXCEPT !.member = d.v], d.err, TRUE)

\* the rest of operation o once the HTTP collaborator has answered
Finish(o, outcome) ==
    CASE o = "GetLists" -> GetListsFinish(outcome)
      [] o = "CreateList" -> CreateListFinish(outcome)
      [] o = "DeleteList" -> DeleteListFinish(outcome)
      [] o = "GetListByAddress" -> GetListByAddressFinish(outcome)
      [] o = "UpdateList" -> UpdateListFinish(outcome)
      [] o = "GetSubscribers" -> GetSubscribersFinish(outcome)
      [] o = "GetSubscriberByAddress" -> GetSubscriberByAddressFinish(outcome)
      [] o = "CreateSubscriber" -> CreateSubscriberFinish(outcome)
      [] OTHER -> UpdateSubscriberFinish(outcome)

(* ------------------------------ the state ----------------------------- *)

ZeroArgs == [limit |-> 0, skip |-> 0, filter |-> "", s |-> Nil, addr |-> "",
             sub |-> "", merge |-> FALSE, list |-> ZeroList,
             member |-> ZeroSubscriber]

NoReply == [err |-> Nil, resp |-> NilResponse]

Init ==
    /\ yes = TRUE
    /\ no = FALSE
    /\ apiKey = "key-1"
    /\ pc = [c \in Callers |-> "idle"]
    /\ op = [c \in Callers |-> ""]
    /\ args = [c \in Callers |-> ZeroArgs]
    /\ req = [c \in Callers |-> NoRequest]
    /\ sent = [c \in Callers |-> <<>>]
    /\ reply = [c \in Callers |-> NoReply]
    /\ ret = [c \in Callers |-> NoReturn]

\* caller c enters operation o with arguments a and has built request r;
\* the next thing it does is hand r to the HTTP collaborator
Begin(c, o, a, r) ==
    /\ pc[c] = "idle"
    /\ pc' = [pc EXCEPT ![c] = "request"]
    /\ op' = [op EXCEPT ![c] = o]
    /\ args' = [args EXCEPT ![c] = a]
    /\ req' = [req EXCEPT ![c] = r]
    /\ sent' = [sent EXCEPT ![c] = <<>>]
    /\ reply' = [reply EXCEPT ![c] = NoReply]
    /\ ret' = [ret EXCEPT ![c] = NoReturn]
    /\ UNCHANGED <<yes, no, apiKey>>

\* caller c enters operation o with arguments a and returns val and err
\* before any request is made
ReturnEarly(c, o, a, val, err) ==
    /\ pc[c] = "idle"
    /\ pc' = [pc EXCEPT ![c] = "done"]
    /\ op' = [op EXCEPT ![c] = o]
    /\ args' = [args EXCEPT ![c] = a]
    /\ req' = [req EXCEPT ![c] = NoRequest]
    /\ sent' = [sent EXCEPT ![c] = <<>>]
    /\ reply' = [reply EXCEPT ![c] = NoReply]
    /\ ret' = [ret EXCEPT ![c] = [val |-> val, err |-> err, decoded |-> FALSE]]
    /\ UNCHANGED <<yes, no, apiKey>>

(* ---------------------------- the operations -------------------------- *)

GetLists(c, limit, skip, filter) ==
    Begin(c, "GetLists",
          [ZeroArgs EXCEPT !.limit = limit, !.skip = skip, !.filter = filter],
          GetListsRequest(apiKey, limit, skip, filter))

CreateList(c, prototype) ==
    Begin(c, "CreateList", [ZeroArgs EXCEPT !.list = prototype],
          CreateListRequest(apiKey, prototype))

DeleteList(c, addr) ==
    Begin(c, "DeleteList", [ZeroArgs EXCEPT !.addr = addr],
          DeleteListRequest(apiKey, addr))

GetListByAddress(c, addr) ==
    Begin(c, "GetListByAddress", [ZeroArgs EXCEPT !.addr = addr],
          GetListByAddressRequest(apiKey, addr))

UpdateList(c, addr, prototype) ==
    Begin(c, "UpdateList", [ZeroArgs EXCEPT !.addr = addr, !.list = prototype],
          UpdateListRequest(apiKey, addr, prototype))

\* GetSubscribers clearing the boolean its filter points at
GetSubscribersWritesThrough(c, limit, skip, s, addr) ==
    /\ pc[c] = "idle"
    /\ pc' = [pc EXCEPT ![c] = "request"]
    /\ op' = [op EXCEPT ![c] = "GetSubscribers"]
    /\ args' = [args EXCEPT ![c] = [ZeroArgs EXCEPT !.limit = limit,
                                                    !.skip = skip, !.s = s,
                                                    !.addr = addr]]
    /\ req' = [req EXCEPT ![c] =
                  GetSubscribersRequest(apiKey, limit, skip, s, addr)]
    /\ sent' = [sent EXCEPT ![c] = <<>>]
    /\ reply' = [reply EXCEPT ![c] = NoReply]
    /\ ret' = [ret EXCEPT ![c] = NoReturn]
    /\ yes' = (yes /\ s # Subscribed)
    /\ no' = no
    /\ apiKey' = apiKey

GetSubscribers(c, limit, skip, s, addr) ==
    Begin(c, "GetSubscribers",
          [ZeroArgs EXCEPT !.limit = limit, !.skip = skip, !.s = s,
                           !.addr = addr],
          GetSubscribersRequest(apiKey, limit, skip, s, addr))

GetSubscriberByAddress(c, s, l) ==
    Begin(c, "GetSubscriberByAddress", [ZeroArgs EXCEPT !.sub = s, !.addr = l],
          GetSubscriberByAddressRequest(apiKey, s, l))

\* json.Marshal comes first; its error ends the call
CreateSubscriber(c, merge, addr, prototype) ==
    LET a == [ZeroArgs EXCEPT !.merge = merge, !.addr = addr,
                              !.member = prototype]
        m == Marshal(prototype.Vars)
    IN  /\ pc[c] = "idle"
        /\ IF m.err # Nil
           THEN ReturnEarly(c, "CreateSubscriber", a, ZeroVal, m.err)
           ELSE Begin(c, "CreateSubscriber", a,
                      CreateSubscriberRequest(apiKey, merge, addr, prototype,
                                              m.text))

\* UpdateSubscriber dropping the error of json.Marshal
UpdateSubscriberIgnoresMarshalErr(c, s, l, prototype) ==
    LET a == [ZeroArgs EXCEPT !.sub = s, !.addr = l, !.member = prototype]
        m == IF prototype.Vars.isNil THEN [text |-> "", err |-> Nil]
             ELSE Marshal(prototype.Vars)
    IN  Begin(c, "UpdateSubscriber", a,
              UpdateSubscriberRequest(apiKey, s, l, prototype, m.text))

\* json.Marshal runs only for a non-nil Vars; its error ends the call
UpdateSubscriber(c, s, l, prototype) ==
    LET a == [ZeroArgs EXCEPT !.sub = s, !.addr = l, !.member = prototype]
        m == IF prototype.Vars.isNil THEN [text |-> "", err |-> Nil]
             ELSE Marshal(prototype.Vars)
    IN  /\ pc[c] = "idle"
        /\ IF m.err # Nil
           THEN ReturnEarly(c, "UpdateSubscriber", a, ZeroVal, m.err)
           ELSE Begin(c, "UpdateSubscriber", a,
                      UpdateSubscriberRequest(apiKey, s, l, prototype, m.text))

\* a second attempt after a failed request
MakeRequestRetry(c, o) ==
    /\ pc[c] = "request"
    /\ sent' = [sent EXCEPT ![c] = IF o.err # Nil
                                   THEN Append(Append(@, req[c]), req[c])
                                   ELSE Append(@, req[c])]
    /\ reply' = [reply EXCEPT ![c] = o]
    /\ LET f == Finish(op[c], o)
       IN  /\ pc' = [pc EXCEPT ![c] = f.pc]
           /\ ret' = [ret EXCEPT ![c] = [val |-> f.val, err |-> f.err,
                                         decoded |-> f.decoded]]
    /\ UNCHANGED <<yes, no, apiKey, op, args, req>>

\* r.MakeRequest / MakeGetRequest / MakePostRequest / MakePutRequest /
\* MakeDeleteRequest: the request goes on the wire once, the collaborator
\* answers with outcome o, and the operation runs to its return
MakeRequest(c, o) ==
    /\ pc[c] = "request"
    /\ sent' = [sent EXCEPT ![c] = Append(@, req[c])]
    /\ reply' = [reply EXCEPT ![c] = o]
    /\ LET f == Finish(op[c], o)
       IN  /\ pc' = [pc EXCEPT ![c] = f.pc]
           /\ ret' = [ret EXCEPT ![c] = [val |-> f.val, err |-> f.err,
                                         decoded |-> f.decoded]]
    /\ UNCHANGED <<yes, no, apiKey, op, args, req>>

\* the caller has taken the returned values (or the panic) and is free to
\* call again
Return(c) ==
    /\ pc[c] \in {"done", "panic"}
    /\ pc' = [pc EXCEPT ![c] = "idle"]
    /\ op' = [op EXCEPT ![c] = ""]
    /\ args' = [args EXCEPT ![c] = ZeroArgs]
    /\ req' = [req EXCEPT ![c] = NoRequest]
    /\ sent' = [sent EXCEPT ![c] = <<>>]
    /\ reply' = [reply EXCEPT ![c] = NoReply]
    /\ ret' = [ret EXCEPT ![c] = NoReturn]
    /\ UNCHANGED <<yes, no, apiKey>>

(* ------------------------------ the inputs ---------------------------- *)

\* small values around zero, the two defaults, and longer decimal texts
Ints == (0 - MaxInt)..MaxInt \cup {DefaultLimit, DefaultSkip, -120, 1000}
Filters == {"", "dev"}
ListAddrs == {"l@x", "m@x"}
SubAddrs == {"l@x", "s@x"}

ListPrototypes ==
    [Address : {"", "n@x"}, Name : {"", "L"}, Description : {"", "d"},
     AccessLevel : {"", ReadOnly, Members, Everyone}, CreatedAt : {""},
     MembersCount : {0}]

VarsValues ==
    {NilVars, MakeVars(<<>>), MakeVars("k" :> "v"),
     MakeVars(("k" :> "v") @@ ("m" :> "w")), MakeVars("m" :> Chan)}

SubscriberPrototypes ==
    [Address : {"", "a@b"}, Name : {"", "N"}, Subscribed : BoolPtrs,
     Vars : VarsValues]

\* one caller, every input
Next ==
    \/ \E limit \in Ints, skip \in Ints, filter \in Filters :
          GetLists(1, limit, skip, filter)
    \/ \E prototype \in ListPrototypes : CreateList(1, prototype)
    \/ \E addr \in ListAddrs : DeleteList(1, addr)
    \/ \E addr \in ListAddrs : GetListByAddress(1, addr)
    \/ \E addr \in ListAddrs, prototype \in ListPrototypes :
          UpdateList(1, addr, prototype)
    \/ \E limit \in Ints, skip \in Ints, s \in BoolPtrs, addr \in ListAddrs :
          GetSubscribers(1, limit, skip, s, addr)
    \/ \E s \in SubAddrs, l \in ListAddrs : GetSubscriberByAddress(1, s, l)
    \/ \E merge \in BOOLEAN, addr \in ListAddrs,
          prototype \in SubscriberPrototypes :
          CreateSubscriber(1, merge, addr, prototype)
    \/ \E s \in SubAddrs, l \in ListAddrs, prototype \in SubscriberPrototypes :
          UpdateSubscriber(1, s, l, prototype)
    \/ \E o \in Outcomes : MakeRequest(1, o)
    \/ Return(1)

Spec == Init /\ [][Next]_vars

\* the inputs of the concurrent specification
ConcPrototypes ==
    {p \in SubscriberPrototypes :
        /\ p.Address = "a@b" /\ p.Name = ""
        /\ p.Subscribed \in {All, Subscribed, Unsubscribed}
        /\ p.Vars \in {NilVars, MakeVars("m" :> Chan)}}
ConcOutcomes ==
    {o \in Outcomes :
        \/ o.err = "transport"
        \/ o.err = Nil /\ o.resp.code = 200 /\ o.resp.body.shape = "json"
           /\ o.resp.body.address = "s@x" /\ o.resp.body.extra # "absent"}

\* every caller, a few inputs each, all interleavings
NextConc ==
    \E c \in Callers :
        \/ GetLists(c, DefaultLimit, MaxInt, "")
        \/ CreateList(c, [ZeroList EXCEPT !.Address = "n@x"])
        \/ DeleteList(c, "l@x")
        \/ GetListByAddress(c, "l@x")
        \/ UpdateList(c, "l@x", [ZeroList EXCEPT !.Name = "L"])
        \/ \E s \in {All, Subscribed, Unsubscribed} :
              GetSubscribers(c, DefaultLimit, DefaultSkip, s, "l@x")
        \/ GetSubscriberByAddress(c, "s@x", "l@x")
        \/ \E prototype \in ConcPrototypes :
              CreateSubscriber(c, TRUE, "l@x", prototype)
        \/ \E prototype \in ConcPrototypes :
              UpdateSubscriber(c, "s@x", "l@x", prototype)
        \/ \E o \in ConcOutcomes : MakeRequest(c, o)
        \/ Return(c)

SpecConc == Init /\ [][NextConc]_vars

(* ------------------- vocabulary of the properties --------------------- *)

\* the values of the fields named k in payload p, in order
FieldValues(p, k) ==
    LET sel == SelectSeq(p, LAMBDA e : e[1] = k)
    IN  [i \in 1..Len(sel) |-> sel[i][2]]

FieldNames(p) == {p[i][1] : i \in 1..Len(p)}

\* field k is in p once with value v when present holds, and not at all otherwise
FieldIff(p, k, present, v) ==
    FieldValues(p, k) = IF present THEN <<v>> ELSE <<>>

\* caller c has put a request on the wire in the call it is in
Issued(c) == Len(sent[c]) > 0
Wire(c) == sent[c][1]

\* the call of caller c is over: it returned, or it panicked
Over(c) == pc[c] \in {"done", "panic"}

\* reading a decimal text back
DigitValue(ch) == CHOOSE d \in 0..9 : Digit[d + 1] = ch

RECURSIVE AtoiNat(_, _)
AtoiNat(str, acc) ==
    IF str = "" THEN acc
    ELSE AtoiNat(Tail(str), acc * 10 + DigitValue(Head(str)))

Atoi(str) == IF Head(str) = "-" THEN 0 - AtoiNat(Tail(str), 0)
             ELSE AtoiNat(str, 0)

\* field k is in p once and reads back as n when present holds, and is not
\* in p otherwise
NumberIff(p, k, present, n) ==
    LET v == FieldValues(p, k)
    IN  IF present THEN Len(v) = 1 /\ v[1] # "" /\ Atoi(v[1]) = n
        ELSE v = <<>>

\* the tri-state a *bool argument stands for
TriState(ptr) ==
    CASE ptr = Nil -> "unspecified"
      [] ptr \in {Subscribed, PtrTrue} -> "true"
      [] OTHER -> "false"

\* the one encoding of the tri-state: nothing, "yes" or "no"
SubscribedIff(p, ptr) ==
    FieldValues(p, "subscribed") =
        CASE TriState(ptr) = "unspecified" -> <<>>
          [] TriState(ptr) = "true" -> <<"yes">>
          [] OTHER -> <<"no">>

\* every optional field of a List prototype is sent iff it is not empty
ListFieldsIff(p, proto) ==
    /\ FieldIff(p, "address", proto.Address # "", proto.Address)
    /\ FieldIff(p, "name", proto.Name # "", proto.Name)
    /\ FieldIff(p, "description", proto.Description # "", proto.Description)
    /\ FieldIff(p, "access_level", proto.AccessLevel # "", proto.AccessLevel)

\* every optional field of a Subscriber prototype is sent iff it is present
SubscriberFieldsIff(p, proto) ==
    /\ FieldIff(p, "address", proto.Address # "", proto.Address)
    /\ FieldIff(p, "name", proto.Name # "", proto.Name)
    /\ Len(FieldValues(p, "vars")) = IF proto.Vars.isNil THEN 0 ELSE 1
    /\ SubscribedIff(p, proto.Subscribed)

\* the Vars of the prototype cannot be serialized
Unserializable(proto) == \E k \in proto.Vars.keys : proto.Vars.at[k] = Chan

ListingOps == {"GetLists", "GetSubscribers"}
SubscriberWriteOps == {"CreateSubscriber", "UpdateSubscriber"}

(* ---------------------------- the properties -------------------------- *)

\* C1 as stated: whenever a call returns a non-nil error, the result
\* returned with it is the zero value (count 0, no items, empty records).
C1_ZeroValueOnError ==
    \A c \in Callers :
        (pc[c] = "done" /\ ret[c].err # Nil) => ret[c].val = ZeroVal

\* C1 as the code has it: whenever a call returns a non-nil error without
\* having decoded a response body (transport failure, failure reported for
\* a non-2xx status, vars marshalling failure), the result carries no
\* response data: count -1 and no items for the two listing operations, the
\* all-empty record for the single-entity operations.
C1_NoDataOnUndecodedError ==
    \A c \in Callers :
        (pc[c] = "done" /\ ret[c].err # Nil /\ ~ret[c].decoded) =>
            /\ ret[c].val.items = <<>>
            /\ ret[c].val.list = ZeroList
            /\ ret[c].val.member = ZeroSubscriber
            /\ ret[c].val.count = IF op[c] \in ListingOps THEN -1 ELSE 0

\* a listing operation has returned a transport error, with count -1
C1_Witness ==
    \E c \in Callers :
        /\ pc[c] = "done" /\ op[c] = "GetSubscribers"
        /\ ret[c].err = "transport" /\ ret[c].val.count = -1

\* C2: when the HTTP request step fails, the operation returns that error
\* to its caller and does not go on to decode a response.
C2_RequestErrorReturned ==
    \A c \in Callers :
        (Over(c) /\ Issued(c) /\ reply[c].err # Nil) =>
            /\ pc[c] = "done"
            /\ ret[c].err = reply[c].err
            /\ ~ret[c].decoded

\* C3 as stated: in all four operations that take a prototype, an optional
\* field is in the outgoing payload if and only if it is non-empty/present
\* in the prototype.
C3_OptionalFieldsIff ==
    \A c \in Callers :
        Issued(c) =>
            /\ op[c] \in {"CreateList", "UpdateList"} =>
                   ListFieldsIff(Wire(c).payload, args[c].list)
            /\ op[c] \in SubscriberWriteOps =>
                   SubscriberFieldsIff(Wire(c).payload, args[c].member)

\* C3 as the code has it: createMailingList, updateMailingList and
\* updateSubscriber send an optional field if and only if it is
\* non-empty/present; createSubscriber sends address, name and vars exactly
\* once whatever the prototype holds (an empty string as an empty value, a
\* nil vars map as the text null) and only subscribed if and only if it is
\* specified.
C3_OptionalFieldsAmended ==
    \A c \in Callers :
        Issued(c) =>
            /\ op[c] \in {"CreateList", "UpdateList"} =>
                   ListFieldsIff(Wire(c).payload, args[c].list)
            /\ op[c] = "UpdateSubscriber" =>
                   SubscriberFieldsIff(Wire(c).payload, args[c].member)
            /\ op[c] = "CreateSubscriber" =>
                   /\ FieldValues(Wire(c).payload, "address")
                          = <<args[c].member.Address>>
                   /\ FieldValues(Wire(c).payload, "name")
                          = <<args[c].member.Name>>
                   /\ Len(FieldValues(Wire(c).payload, "vars")) = 1
                   /\ args[c].member.Vars.isNil =>
                          FieldValues(Wire(c).payload, "vars") = <<"null">>
                   /\ SubscribedIff(Wire(c).payload, args[c].member.Subscribed)

\* createSubscriber has sent an empty address, an empty name and vars=null
\* for a prototype that holds none of them
C3_Witness ==
    \E c \in Callers :
        /\ Issued(c) /\ op[c] = "CreateSubscriber"
        /\ args[c].member = ZeroSubscriber
        /\ Wire(c).payload = <<<<"upsert", "no">>, <<"address", "">>,
                               <<"name", "">>, <<"vars", "null">>>>

\* C4: listMailingLists and listSubscribers send limit iff it differs from
\* the default limit and skip iff it differs from the default skip, each as
\* the decimal text of the value passed; listMailingLists sends address iff
\* the filter is non-empty; these inputs add no other parameter.
C4_PagingParameters ==
    \A c \in Callers :
        (Issued(c) /\ op[c] \in ListingOps) =>
            LET p == Wire(c).payload
                a == args[c]
            IN  /\ NumberIff(p, "limit", a.limit # DefaultLimit, a.limit)
                /\ NumberIff(p, "skip", a.skip # DefaultSkip, a.skip)
                /\ op[c] = "GetLists" =>
                       /\ FieldIff(p, "address", a.filter # "", a.filter)
                       /\ FieldNames(p) \subseteq {"limit", "skip", "address"}
                /\ op[c] = "GetSubscribers" =>
                       FieldNames(p) \subseteq {"limit", "skip", "subscribed"}

\* listMailingLists has sent skip=-2 alone: the limit was the default and
\* the filter empty
C4_Witness ==
    \E c \in Callers :
        /\ Issued(c) /\ op[c] = "GetLists"
        /\ args[c].limit = DefaultLimit /\ args[c].skip = -2
        /\ Wire(c).payload = <<<<"skip", "-2">>>>

\* C5: wherever the tri-state subscription value is sent (listSubscribers,
\* createSubscriber, updateSubscriber), unspecified gives no subscribed
\* parameter, true exactly one with value yes, false exactly one with value
\* no.
C5_TriStateEncoding ==
    \A c \in Callers :
        Issued(c) =>
            /\ op[c] = "GetSubscribers" =>
                   SubscribedIff(Wire(c).payload, args[c].s)
            /\ op[c] \in SubscriberWriteOps =>
                   SubscribedIff(Wire(c).payload, args[c].member.Subscribed)
            /\ \A i \in 1..Len(Wire(c).payload) :
                   Wire(c).payload[i][1] = "subscribed" =>
                       Wire(c).payload[i][2] \in {"yes", "no"}

\* listSubscribers has sent subscribed=no for Unsubscribed
C5_Witness ==
    \E c \in Callers :
        /\ Issued(c) /\ op[c] = "GetSubscribers" /\ args[c].s = Unsubscribed
        /\ FieldValues(Wire(c).payload, "subscribed") = <<"no">>

\* C6: each operation sends its request with the method and path of the
\* wire contract, {address} being the list address argument and
\* {subAddress} the subscriber address argument, and with the client's API
\* key as the basic-auth credential.
C6_MethodAndPath ==
    \A c \in Callers :
        Issued(c) =>
            LET w == Wire(c)
                list == "/lists/" \o args[c].addr
                members == list \o "/members"
            IN  /\ w.user = basicAuthUser
                /\ w.pass = apiKey
                /\ <<w.method, w.url>> =
                       CASE op[c] = "GetLists" -> <<"GET", "/lists">>
                         [] op[c] = "CreateList" -> <<"POST", "/lists">>
                         [] op[c] = "GetListByAddress" -> <<"GET", list>>
                         [] op[c] = "UpdateList" -> <<"PUT", list>>
                         [] op[c] = "DeleteList" -> <<"DELETE", list>>
                         [] op[c] = "GetSubscribers" -> <<"GET", members>>
                         [] op[c] = "GetSubscriberByAddress" ->
                                <<"GET", members \o "/" \o args[c].sub>>
                         [] op[c] = "CreateSubscriber" -> <<"POST", members>>
                         [] OTHER -> <<"PUT", members \o "/" \o args[c].sub>>

\* getSubscriberByAddress has sent GET /lists/m@x/members/s@x
C6_Witness ==
    \E c \in Callers :
        /\ Issued(c) /\ op[c] = "GetSubscriberByAddress"
        /\ args[c].addr = "m@x" /\ args[c].sub = "s@x"
        /\ Wire(c).url = "/lists/m@x/members/s@x"

\* C7: a call issues at most one HTTP request whatever the outcome, none
\* before the request step, and exactly one by the time it is over when its
\* local preparation succeeded.
C7_AtMostOneRequest ==
    \A c \in Callers :
        /\ Len(sent[c]) <= 1
        /\ pc[c] \in {"idle", "request"} => Len(sent[c]) = 0
        /\ Over(c) =>
               Len(sent[c]) = IF /\ op[c] \in SubscriberWriteOps
                                 /\ Unserializable(args[c].member)
                              THEN 0 ELSE 1

\* a call has returned the error of a failed request, with one request on
\* the wire
C7_Witness ==
    \E c \in Callers :
        /\ pc[c] = "done" /\ Len(sent[c]) = 1
        /\ reply[c].err = "transport" /\ ret[c].err = "transport"

\* C8: createSubscriber always sends upsert, yes exactly when merge is true
\* and no exactly when it is false, and for a prototype with a vars map one
\* vars field holding the JSON text of the map.
C8_UpsertAndVars ==
    \A c \in Callers :
        (Issued(c) /\ op[c] = "CreateSubscriber") =>
            LET p == Wire(c).payload
                v == args[c].member.Vars
            IN  /\ FieldValues(p, "upsert")
                       = <<IF args[c].merge THEN "yes" ELSE "no">>
                /\ ~v.isNil => FieldValues(p, "vars") = <<Marshal(v).text>>
                /\ v = MakeVars(<<>>) => FieldValues(p, "vars") = <<"{}">>
                /\ v = MakeVars("k" :> "v") =>
                       FieldValues(p, "vars") = <<"{\"k\":\"v\"}">>
                /\ v = MakeVars(("k" :> "v") @@ ("m" :> "w")) =>
                       FieldValues(p, "vars") = <<"{\"k\":\"v\",\"m\":\"w\"}">>

\* createSubscriber(false, list, {address a@b, vars {k: v}}) has sent
\* upsert=no and vars={"k":"v"}
C8_Witness ==
    \E c \in Callers :
        /\ Issued(c) /\ op[c] = "CreateSubscriber" /\ ~args[c].merge
        /\ args[c].member.Address = "a@b"
        /\ args[c].member.Vars = MakeVars("k" :> "v")
        /\ FieldValues(Wire(c).payload, "upsert") = <<"no">>
        /\ FieldValues(Wire(c).payload, "vars") = <<"{\"k\":\"v\"}">>

\* C9: when the prototype's vars cannot be serialized, createSubscriber and
\* updateSubscriber return the marshalling error (updateSubscriber with a
\* zero-value Subscriber) and no HTTP request has been issued; a request of
\* these two operations is only ever issued for serializable vars.
C9_MarshalFailureSendsNothing ==
    \A c \in Callers :
        (op[c] \in SubscriberWriteOps /\ Unserializable(args[c].member)) =>
            /\ pc[c] = "done"
            /\ sent[c] = <<>>
            /\ reply[c] = NoReply
            /\ ret[c].err = "json: unsupported type"
            /\ ret[c].val = ZeroVal

\* updateSubscriber has returned the marshalling error
C9_Witness ==
    \E c \in Callers :
        /\ pc[c] = "done" /\ op[c] = "UpdateSubscriber"
        /\ Unserializable(args[c].member)
        /\ ret[c].err = "json: unsupported type" /\ sent[c] = <<>>

\* what interleaved calls have in common does not tell them apart: equal
\* arguments give equal requests, and equal replies then give equal results
SameAsAlone ==
    \A c, d \in Callers :
        (c # d /\ pc[c] # "idle" /\ pc[d] # "idle"
              /\ op[c] = op[d] /\ args[c] = args[d]) =>
            /\ req[c] = req[d]
            /\ (Issued(c) /\ Issued(d)) => Wire(c) = Wire(d)
            /\ (Over(c) /\ Over(d) /\ reply[c] = reply[d]) =>
                   (pc[c] = pc[d] /\ ret[c] = ret[d])

\* C10: no operation modifies the state shared between calls (the API
\* credential, the booleans behind Subscribed and Unsubscribed), so under
\* any interleaving of concurrent calls the request a call sends and the
\* result it returns depend on its own arguments and its own reply alone.
C10_NoSharedMutation ==
    /\ [][yes' = yes /\ no' = no /\ apiKey' = apiKey]_vars
    /\ [](yes = TRUE /\ no = FALSE /\ SameAsAlone)

\* two callers are inside listSubscribers at once, both with Subscribed,
\* one of them with its request already answered
C10_Witness ==
    \E c, d \in Callers :
        /\ c # d
        /\ op[c] = "GetSubscribers" /\ op[d] = "GetSubscribers"
        /\ args[c].s = Subscribed /\ args[d].s = Subscribed
        /\ pc[c] = "done" /\ pc[d] = "request"
        /\ FieldValues(Wire(c).payload, "subscribed") = <<"yes">>
        /\ FieldValues(req[d].payload, "subscribed") = <<"yes">>

====
